---------------------------- MODULE Spec2Model ----------------------------
(***************************************************************************)
(* Model of poe_gem_calculator_dash.py: the awakened-gem profit            *)
(* calculator (price sources, GemProfitCalculator, the bulk loader thread, *)
(* the results list profits_data, the corruption cache and the Dash        *)
(* callbacks that mutate them).                                            *)
(*                                                                         *)
(* Numbers.  The program computes with Python floats.  The model computes  *)
(* with exact rationals [n, d] (d > 0, lowest terms), so 0.333 is          *)
(* 333/1000 and a division is the exact quotient.                          *)
(***************************************************************************)
EXTENDS Integers, Sequences, FiniteSets, TLC

(***************************************************************************)
(* Exact rational arithmetic (the model's stand-in for float).             *)
(***************************************************************************)
Abs(x) == IF x < 0 THEN -x ELSE x

RECURSIVE GCD(_, _)
GCD(a, b) == IF b = 0 THEN a ELSE GCD(b, a % b)

Norm(n, d) ==
    LET g == GCD(Abs(n), Abs(d))
        s == IF d < 0 THEN -1 ELSE 1
    IN  [n |-> (s * n) \div g, d |-> (s * d) \div g]

R(i) == [n |-> i, d |-> 1]
RAdd(a, b) == Norm(a.n * b.d + b.n * a.d, a.d * b.d)
RSub(a, b) == Norm(a.n * b.d - b.n * a.d, a.d * b.d)
RMul(a, b) == Norm(a.n * b.n, a.d * b.d)
RDiv(a, b) == Norm(a.n * b.d, a.d * b.n)
RLt(a, b) == a.n * b.d < b.n * a.d
RGt(a, b) == RLt(b, a)
RAbs(a) == [n |-> Abs(a.n), d |-> a.d]

(***************************************************************************)
(* Python's None: the value of a missing price, a missing record, an       *)
(* unset global.                                                           *)
(***************************************************************************)
None == [none |-> TRUE]

\* dict.get(key, default)
Get(dict, key, default) == IF key \in DOMAIN dict THEN dict[key] ELSE default

(***************************************************************************)
(* The gems on the market, in the order poe.ninja lists them.              *)
(***************************************************************************)
Fork == "Awakened Fork Support"
Chain == "Awakened Chain Support"
Enlighten == "Awakened Enlighten Support"
GemSeq == <<Fork, Chain, Enlighten>>
Gems == {GemSeq[k] : k \in DOMAIN GemSeq}

(***************************************************************************)
(* The item variants the program prices.  A trade-site variant is          *)
(* <<level, quality_min, quality_max, corrupted>>; a poe.ninja variant is  *)
(* <<gemLevel, gemQuality>>.                                               *)
(***************************************************************************)
L1Q0 == <<1, 0, 0, FALSE>>
L5Q20 == <<5, 20, 20, FALSE>>
L4c == <<4, 20, 20, TRUE>>
L5c == <<5, 20, 20, TRUE>>
L6c == <<6, 20, 20, TRUE>>
QUp == <<5, 21, 23, TRUE>>
QDown == <<5, 10, 19, TRUE>>
TradeVariants == {L1Q0, L5Q20, L4c, L5c, L6c, QUp, QDown}
NinjaL1 == <<1, 0>>
NinjaL5 == <<5, 20>>
NinjaVariants == {NinjaL1, NinjaL5}

\* A whole number of chaos as a price, -1 standing for "no price".
P(c) == IF c < 0 THEN None ELSE R(c)

\* One gem's state on the two sites: what a live search of each trade
\* variant yields (None: no listing, or the request failed) and what the
\* poe.ninja snapshot holds for it (None: no such line).
GemMarket(l1, l5, c4, c5, c6, qu, qd, n1, n5) ==
    [trade |-> (L1Q0 :> P(l1)) @@ (L5Q20 :> P(l5)) @@ (L4c :> P(c4)) @@
               (L5c :> P(c5)) @@ (L6c :> P(c6)) @@ (QUp :> P(qu)) @@
               (QDown :> P(qd)),
     ninja |-> (NinjaL1 :> P(n1)) @@ (NinjaL5 :> P(n5))]

\* The market states of the model.  Full: every price is there.
\* FreeFlat: a free L1 gem whose corrupted variants all cost the same.
\* NoLiveL1: no live L1 listing and no corrupted listing, while the
\* snapshot has both prices.  NoCorrupted: no corrupted listing at all.
\* Pricey: every price but the one of the lower-quality corrupted gem.
Full == GemMarket(50, 150, 60, 140, 400, 200, 100, 45, 160)
FreeFlat == GemMarket(0, 90, 120, 120, 120, 120, 120, 0, 80)
NoLiveL1 == GemMarket(-1, 150, -1, -1, -1, -1, -1, 45, 160)
NoCorrupted == GemMarket(50, 150, -1, -1, -1, -1, -1, 45, 160)
Pricey == GemMarket(100, 400, 150, 380, 900, 500, -1, 90, 420)

\* The market states each gem can be in.
GemMarkets ==
    (Fork :> {Full, FreeFlat}) @@
    (Chain :> {NoLiveL1, NoCorrupted}) @@
    (Enlighten :> {Pricey})

\* What get_currency_prices can return: a response without the beast line
\* (the calculator then falls back on its defaults), worthless currency.
CurrencyCases ==
    { [gcp |-> 1, vaal |-> 1],
      [gcp |-> 0, vaal |-> 0, brambleback |-> 0] }

VARIABLES
    market,              \* the two sites: the market state of each gem
    currency_prices,     \* calculator.currency_prices
    profits_data,        \* the results list
    all_ninja_profits,   \* snapshot prices per gem, kept for Load All
    corruption_cache,    \* gem name -> corruption-EV result, None if absent
    cache_age,           \* seconds since each cache entry was computed
    current_analysis_gem,
    loading_progress,    \* [current, total, complete]
    loading_thread,      \* the module global: None until a thread is made
    loaders,             \* the threads running load_gem_prices
    pending,             \* the corruption analyses being computed
    gunicorn,            \* SERVER_SOFTWARE starts with "gunicorn"
    poll,                \* where a call of update_progress stands
    response,            \* what display_gem_details returned, if it ran last
    call,                \* the call of a price source being followed
    divine_rate,         \* calculator.divine_rate
    currency_mode,       \* "chaos" or "divine"
    formatted            \* what format_price returned last

\* The state of the loader and the callbacks, and the state of the price
\* sources and the display of prices.
load_vars == <<market, currency_prices, profits_data, all_ninja_profits,
               corruption_cache, cache_age, current_analysis_gem,
               loading_progress, loading_thread, loaders, pending, gunicorn,
               poll, response>>
source_vars == <<call, divine_rate, currency_mode, formatted>>

vars == <<load_vars, source_vars>>

(***************************************************************************)
(* SimplePoeAPI: the price sources.                                        *)
(***************************************************************************)
\* The live search of one exact variant: the average listing price in
\* chaos, or None when the search finds nothing or a request fails.
get_trade_site_gem_price(gem_name, level, quality, corrupted) ==
    market[gem_name].trade[<<level, quality, quality, corrupted>>]

\* The live search of a corrupted variant over a quality range.
get_trade_site_gem_price_corrupted(gem_name, level, quality_min, quality_max) ==
    market[gem_name].trade[<<level, quality_min, quality_max, TRUE>>]

\* The poe.ninja snapshot: one entry per (name, gemLevel, gemQuality) line,
\* in the order of the site's lines.
RECURSIVE NinjaLines(_)
NinjaLines(k) ==
    IF k = 0 THEN <<>>
    ELSE LET name == GemSeq[k]
             line(v) == IF market[name].ninja[v] = None THEN <<>>
                        ELSE << [name |-> name, level |-> v[1], quality |-> v[2],
                                 chaos_value |-> market[name].ninja[v]] >>
         IN  NinjaLines(k - 1) \o line(NinjaL1) \o line(NinjaL5)

get_awakened_gem_prices == NinjaLines(Len(GemSeq))

(***************************************************************************)
(* The requests behind the price sources.  A reply is a request that       *)
(* raised (timeout, connection error, a body that is no JSON), or a status *)
(* with a body.                                                            *)
(***************************************************************************)
Raised == [status |-> "raised"]
TooManyRequests == [status |-> "429"]
ServerError == [status |-> "500"]
Ok(body) == [status |-> "200", body |-> body]

\* The listings of a fetch reply: a price in chaos, in divine or in another
\* currency, or a listing without price data.
Chaos(a) == [amount |-> a, currency |-> "chaos"]
Divine(a) == [amount |-> a, currency |-> "divine"]
Exalted(a) == [amount |-> a, currency |-> "exalted"]
NoPrice == [amount |-> 0, currency |-> "none"]

\* What the trade site can hold for a search, in the site's order.
SiteListings ==
    { <<>>,
      <<Chaos(30)>>,
      <<Chaos(50), Chaos(20), Divine(1), NoPrice, Chaos(40), Chaos(10)>>,
      <<Divine(1), Divine(2)>>,
      <<NoPrice, Exalted(3)>>,
      <<Chaos(90), Chaos(10), Chaos(80), Chaos(20), Chaos(70), Chaos(30),
        Chaos(60)>> }

\* The replies to the currency overview request of get_divine_chaos_rate:
\* with a Divine Orb line giving chaosEquivalent, with a line that lacks it
\* (divine = None), or without the line.
NoDivineLine == [lines |-> <<>>]
DivineLine(rate) == [lines |-> <<[currencyTypeName |-> "Divine Orb",
                                  chaosEquivalent |-> rate]>>]
RateReplies ==
    {Raised, ServerError, Ok(NoDivineLine), Ok(DivineLine(None)),
     Ok(DivineLine(R(150))), Ok(DivineLine(R(200)))}

DefaultRate == 100

\* get_divine_chaos_rate, given the reply to its request: the rate of the
\* Divine Orb line, 100.0 when there is none or the request failed (the
\* body of a reply that is not 200 has no lines).
get_divine_chaos_rate(reply) ==
    IF reply.status = "raised" THEN R(DefaultRate)
    ELSE LET lines == IF reply.status = "200" THEN reply.body.lines ELSE <<>>
             divine == {j \in 1..Len(lines) :
                           lines[j].currencyTypeName = "Divine Orb"}
         IN  IF divine = {} THEN R(DefaultRate)
             ELSE LET item == lines[CHOOSE j \in divine : \A h \in divine : j <= h]
                  IN  IF item.chaosEquivalent = None THEN R(DefaultRate)
                      ELSE item.chaosEquivalent

\* prices.sort()
InsertAsc(sorted, x) ==
    LET k == Cardinality({j \in 1..Len(sorted) : ~RLt(x, sorted[j])})
    IN  SubSeq(sorted, 1, k) \o <<x>> \o SubSeq(sorted, k + 1, Len(sorted))

RECURSIVE SortAsc(_)
SortAsc(prices) ==
    IF prices = <<>> THEN <<>>
    ELSE InsertAsc(SortAsc(SubSeq(prices, 1, Len(prices) - 1)), prices[Len(prices)])

RECURSIVE Sum(_)
Sum(prices) ==
    IF prices = <<>> THEN R(0)
    ELSE RAdd(Sum(SubSeq(prices, 1, Len(prices) - 1)), prices[Len(prices)])

AverageOver == 5

\* The average without the sort: of the first five prices collected.
AveragePrice_unsorted(prices) ==
    LET n == IF Len(prices) < AverageOver THEN Len(prices) ELSE AverageOver
    IN  IF prices = <<>> THEN None
        ELSE RDiv(Sum(SubSeq(prices, 1, n)), R(n))

\* if prices: prices.sort(); return sum(prices[:5]) / min(5, len(prices))
AveragePrice(prices) ==
    LET n == IF Len(prices) < AverageOver THEN Len(prices) ELSE AverageOver
    IN  IF prices = <<>> THEN None
        ELSE RDiv(Sum(SubSeq(SortAsc(prices), 1, n)), R(n))

\* The retry loop of get_trade_site_gem_price.
max_retries == 3
retry_delay == 1

RECURSIVE Pow2(_)
Pow2(n) == IF n = 0 THEN 1 ELSE 2 * Pow2(n - 1)

\* The wait without the doubling.
wait_time_constant(attempt) == retry_delay

\* wait_time = retry_delay * (2 ** attempt)
wait_time(attempt) == retry_delay * Pow2(attempt)

\* result_ids = search_data.get('result', [])[:5], [:10] for the corrupted
\* search over a quality range
TradeLimit == 5
CorruptedLimit == 10

(***************************************************************************)
(* GemProfitCalculator.                                                    *)
(***************************************************************************)
\* The ratio without the factor 100.
Percent_as_fraction(profit, total_cost) ==
    IF RGt(total_cost, R(0)) THEN RDiv(profit, total_cost) ELSE R(0)

\* profit / total_cost * 100, and 0 when total_cost is not positive
Percent(profit, total_cost) ==
    IF RGt(total_cost, R(0)) THEN RMul(RDiv(profit, total_cost), R(100)) ELSE R(0)

\* calculate_basic_profit with the quality cost left out of the total.
calculate_basic_profit_without_quality(gem_name) ==
    LET l1_price == get_trade_site_gem_price(gem_name, 1, 0, FALSE)
        l5_price == get_trade_site_gem_price(gem_name, 5, 20, FALSE)
        leveling_cost == RMul(R(4), R(Get(currency_prices, "brambleback", 10)))
        quality_cost == RMul(R(20), R(Get(currency_prices, "gcp", 1)))
        total_cost == RAdd(l1_price, leveling_cost)
        profit == RSub(l5_price, total_cost)
    IN  IF l1_price = None \/ l5_price = None THEN None
        ELSE [name |-> gem_name,
              l1_cost |-> l1_price,
              leveling_cost |-> leveling_cost,
              quality_cost |-> quality_cost,
              total_cost |-> total_cost,
              l5_price |-> l5_price,
              profit |-> profit,
              profit_percent |-> Percent(profit, total_cost)]

\* calculate_basic_profit with a missing price counted as 0.
calculate_basic_profit_zero_filled(gem_name) ==
    LET found(price) == IF price = None THEN R(0) ELSE price
        l1_price == found(get_trade_site_gem_price(gem_name, 1, 0, FALSE))
        l5_price == found(get_trade_site_gem_price(gem_name, 5, 20, FALSE))
        leveling_cost == RMul(R(4), R(Get(currency_prices, "brambleback", 10)))
        quality_cost == RMul(R(20), R(Get(currency_prices, "gcp", 1)))
        total_cost == RAdd(RAdd(l1_price, leveling_cost), quality_cost)
        profit == RSub(l5_price, total_cost)
    IN  [name |-> gem_name,
         l1_cost |-> l1_price,
         leveling_cost |-> leveling_cost,
         quality_cost |-> quality_cost,
         total_cost |-> total_cost,
         l5_price |-> l5_price,
         profit |-> profit,
         profit_percent |-> Percent(profit, total_cost)]

\* calculate_basic_profit falling back on the snapshot price of a variant
\* the live search does not find.
calculate_basic_profit_with_snapshot(gem_name) ==
    LET live1 == get_trade_site_gem_price(gem_name, 1, 0, FALSE)
        live5 == get_trade_site_gem_price(gem_name, 5, 20, FALSE)
        l1_price == IF live1 # None THEN live1 ELSE market[gem_name].ninja[NinjaL1]
        l5_price == IF live5 # None THEN live5 ELSE market[gem_name].ninja[NinjaL5]
        leveling_cost == RMul(R(4), R(Get(currency_prices, "brambleback", 10)))
        quality_cost == RMul(R(20), R(Get(currency_prices, "gcp", 1)))
        total_cost == RAdd(RAdd(l1_price, leveling_cost), quality_cost)
        profit == RSub(l5_price, total_cost)
    IN  IF l1_price = None \/ l5_price = None THEN None
        ELSE [name |-> gem_name,
              l1_cost |-> l1_price,
              leveling_cost |-> leveling_cost,
              quality_cost |-> quality_cost,
              total_cost |-> total_cost,
              l5_price |-> l5_price,
              profit |-> profit,
              profit_percent |-> Percent(profit, total_cost)]

calculate_basic_profit(gem_name) ==
    LET l1_price == get_trade_site_gem_price(gem_name, 1, 0, FALSE)
        l5_price == get_trade_site_gem_price(gem_name, 5, 20, FALSE)
        leveling_cost == RMul(R(4), R(Get(currency_prices, "brambleback", 10)))
        quality_cost == RMul(R(20), R(Get(currency_prices, "gcp", 1)))
        total_cost == RAdd(RAdd(l1_price, leveling_cost), quality_cost)
        profit == RSub(l5_price, total_cost)
    IN  IF l1_price = None \/ l5_price = None THEN None
        ELSE [name |-> gem_name,
              l1_cost |-> l1_price,
              leveling_cost |-> leveling_cost,
              quality_cost |-> quality_cost,
              total_cost |-> total_cost,
              l5_price |-> l5_price,
              profit |-> profit,
              profit_percent |-> Percent(profit, total_cost)]

\* The weights of the expected value, as the code writes them.
W_no_change == [n |-> 333, d |-> 1000]
W_other == [n |-> 167, d |-> 1000]

\* ev_price of calculate_corruption_ev
EvPrice(l5_no_change, l6_price, l4_price, quality_up, quality_down) ==
    RAdd(RAdd(RAdd(RAdd(RMul(W_no_change, l5_no_change),
                        RMul(W_other, l6_price)),
                   RMul(W_other, l4_price)),
              RMul(W_other, quality_up)),
         RMul(W_other, quality_down))

\* calculate_corruption_ev with the vaal orb left out of the cost.
calculate_corruption_ev_without_vaal(gem_name, base_data) ==
    LET l4_price == get_trade_site_gem_price(gem_name, 4, 20, TRUE)
        l5_no_change == get_trade_site_gem_price(gem_name, 5, 20, TRUE)
        l6_price == get_trade_site_gem_price(gem_name, 6, 20, TRUE)
        quality_up == get_trade_site_gem_price_corrupted(gem_name, 5, 21, 23)
        quality_down == get_trade_site_gem_price_corrupted(gem_name, 5, 10, 19)
        vaal_cost == R(Get(currency_prices, "vaal", 1))
        ev_price == EvPrice(l5_no_change, l6_price, l4_price, quality_up, quality_down)
        ev_total_cost == base_data.total_cost
        ev_profit == RSub(ev_price, ev_total_cost)
    IN  IF None \in {l4_price, l5_no_change, l6_price, quality_up, quality_down}
        THEN None
        ELSE [vaal_cost |-> vaal_cost,
              ev_price |-> ev_price,
              ev_total_cost |-> ev_total_cost,
              ev_profit |-> ev_profit,
              ev_percent |-> Percent(ev_profit, ev_total_cost),
              base_profit |-> base_data.profit,
              outcomes |-> [l4 |-> l4_price,
                            l5_no_change |-> l5_no_change,
                            l6 |-> l6_price,
                            quality_up |-> quality_up,
                            quality_down |-> quality_down]]

\* calculate_corruption_ev putting an estimate, a multiple of the L5 price
\* of the base record, in the place of every missing price.
calculate_corruption_ev_with_estimates(gem_name, base_data) ==
    LET est(price, num, den) ==
            IF price # None THEN price
            ELSE RMul([n |-> num, d |-> den], base_data.l5_price)
        l4_price == est(get_trade_site_gem_price(gem_name, 4, 20, TRUE), 2, 5)
        l5_no_change == est(get_trade_site_gem_price(gem_name, 5, 20, TRUE), 19, 20)
        l6_price == est(get_trade_site_gem_price(gem_name, 6, 20, TRUE), 3, 2)
        quality_up == est(get_trade_site_gem_price_corrupted(gem_name, 5, 21, 23), 11, 10)
        quality_down == est(get_trade_site_gem_price_corrupted(gem_name, 5, 10, 19), 3, 5)
        vaal_cost == R(Get(currency_prices, "vaal", 1))
        ev_price == EvPrice(l5_no_change, l6_price, l4_price, quality_up, quality_down)
        ev_total_cost == RAdd(base_data.total_cost, vaal_cost)
        ev_profit == RSub(ev_price, ev_total_cost)
    IN  [vaal_cost |-> vaal_cost,
         ev_price |-> ev_price,
         ev_total_cost |-> ev_total_cost,
         ev_profit |-> ev_profit,
         ev_percent |-> Percent(ev_profit, ev_total_cost),
         base_profit |-> base_data.profit,
         outcomes |-> [l4 |-> l4_price,
                       l5_no_change |-> l5_no_change,
                       l6 |-> l6_price,
                       quality_up |-> quality_up,
                       quality_down |-> quality_down]]

calculate_corruption_ev(gem_name, base_data) ==
    LET l4_price == get_trade_site_gem_price(gem_name, 4, 20, TRUE)
        l5_no_change == get_trade_site_gem_price(gem_name, 5, 20, TRUE)
        l6_price == get_trade_site_gem_price(gem_name, 6, 20, TRUE)
        quality_up == get_trade_site_gem_price_corrupted(gem_name, 5, 21, 23)
        quality_down == get_trade_site_gem_price_corrupted(gem_name, 5, 10, 19)
        vaal_cost == R(Get(currency_prices, "vaal", 1))
        ev_price == EvPrice(l5_no_change, l6_price, l4_price, quality_up, quality_down)
        ev_total_cost == RAdd(base_data.total_cost, vaal_cost)
        ev_profit == RSub(ev_price, ev_total_cost)
    IN  IF None \in {l4_price, l5_no_change, l6_price, quality_up, quality_down}
        THEN None
        ELSE [vaal_cost |-> vaal_cost,
              ev_price |-> ev_price,
              ev_total_cost |-> ev_total_cost,
              ev_profit |-> ev_profit,
              ev_percent |-> Percent(ev_profit, ev_total_cost),
              base_profit |-> base_data.profit,
              outcomes |-> [l4 |-> l4_price,
                            l5_no_change |-> l5_no_change,
                            l6 |-> l6_price,
                            quality_up |-> quality_up,
                            quality_down |-> quality_down]]

(***************************************************************************)
(* list.sort(key=lambda x: x['profit_percent'], reverse=True): a stable    *)
(* sort, highest ROI% first, equal keys keeping their order.               *)
(***************************************************************************)
InsertDesc(sorted, x) ==
    LET k == Cardinality({j \in 1..Len(sorted) :
                             ~RLt(sorted[j].profit_percent, x.profit_percent)})
    IN  SubSeq(sorted, 1, k) \o <<x>> \o SubSeq(sorted, k + 1, Len(sorted))

\* The list left as it is.
SortByRoi_skipped(list) == list

RECURSIVE SortByRoi(_)
SortByRoi(list) ==
    IF list = <<>> THEN <<>>
    ELSE InsertDesc(SortByRoi(SubSeq(list, 1, Len(list) - 1)), list[Len(list)])

Min(a, b) == IF a < b THEN a ELSE b

\* next((g for g in profits_data if g['name'] == gem_name), None)
FindGem(list, gem_name) ==
    LET hits == {j \in 1..Len(list) : list[j].name = gem_name}
    IN  IF hits = {} THEN None
        ELSE list[CHOOSE j \in hits : \A h \in hits : j <= h]

(***************************************************************************)
(* load_gem_prices, phase 1: the snapshot and the candidates.              *)
(***************************************************************************)
\* ninja_profits: per gem name, in order of first appearance, the L1 Q0
\* and L5 Q20 snapshot prices (None: the key is absent).
Upsert(acc, name, key, value) ==
    LET base == IF \E j \in 1..Len(acc) : acc[j].name = name THEN acc
                ELSE Append(acc, [name |-> name, l1 |-> None, l5 |-> None])
    IN  [j \in 1..Len(base) |->
            IF base[j].name = name THEN [base[j] EXCEPT ![key] = value]
            ELSE base[j]]

RECURSIVE NinjaProfits(_, _)
NinjaProfits(ninja_gems, k) ==
    IF k = 0 THEN <<>>
    ELSE LET acc == NinjaProfits(ninja_gems, k - 1)
             gem_data == ninja_gems[k]
         IN  IF gem_data.level = 1 /\ gem_data.quality = 0
             THEN Upsert(acc, gem_data.name, "l1", gem_data.chaos_value)
             ELSE IF gem_data.level = 5 /\ gem_data.quality = 20
             THEN Upsert(acc, gem_data.name, "l5", gem_data.chaos_value)
             ELSE acc

excluded_gems == {"Awakened Enlighten Support", "Awakened Empower Support",
                  "Awakened Enhance Support"}

\* The estimate load_gem_prices makes of one candidate from its snapshot
\* prices.
NinjaEstimate(data) ==
    LET l1_cost == data.l1
        l5_price == data.l5
        leveling_cost == RMul(R(4), R(Get(currency_prices, "brambleback", 10)))
        quality_cost == RMul(R(20), R(Get(currency_prices, "gcp", 1)))
        total_cost == RAdd(RAdd(l1_cost, leveling_cost), quality_cost)
        profit == RSub(l5_price, total_cost)
    IN  [name |-> data.name,
         profit_percent |-> Percent(profit, total_cost),
         estimated_profit |-> profit]

RECURSIVE EstimatedProfits(_, _)
EstimatedProfits(ninja_profits, k) ==
    IF k = 0 THEN <<>>
    ELSE LET acc == EstimatedProfits(ninja_profits, k - 1)
             data == ninja_profits[k]
         IN  IF data.name \in excluded_gems THEN acc
             ELSE IF data.l1 # None /\ data.l5 # None
             THEN Append(acc, NinjaEstimate(data))
             ELSE acc

TopCount == 5

\* top_5: the names of the best candidates by estimated ROI%
Top5(ninja_profits) ==
    LET estimated_profits ==
            SortByRoi(EstimatedProfits(ninja_profits, Len(ninja_profits)))
    IN  [j \in 1..Min(TopCount, Len(estimated_profits)) |-> estimated_profits[j].name]

(***************************************************************************)
(* The state after the module is imported.  Standalone, the loader thread  *)
(* is started at once; under gunicorn loading_thread stays None until the  *)
(* first page visit.                                                       *)
(***************************************************************************)
MaxLoaders == 1
Threads == DOMAIN loaders
Idle == [pc |-> "idle", top_5 |-> <<>>, i |-> 0]
Started == [pc |-> "start", top_5 |-> <<>>, i |-> 0]
Thread == [thread |-> TRUE]

\* What display_gem_details returns: the kind of its answer, the gem it is
\* about, the corruption data shown with the difference to the base
\* profit, and whether (and how old) the data came from the cache; for data
\* just computed, the base record it was computed from, whether the
\* computation ran while other callbacks did (late), whether a refresh
\* emptied the cache meanwhile, and whether the cache already held an entry
\* for the gem when the result was stored (stored_over).  What
\* update_table_and_analysis returns: the rows of the table.  What
\* update_progress returns: the percentage, whether the loading modal is
\* open and whether the progress interval is disabled.
NoResponse == [kind |-> "none", gem |-> "", ev |-> None, comparison |-> None,
               cached |-> FALSE, age |-> 0, base |-> None, late |-> FALSE,
               refreshed |-> FALSE, stored_over |-> FALSE, rows |-> <<>>,
               percent |-> None, is_open |-> FALSE, interval_disabled |-> FALSE]

\* The module starting the loader thread whatever the server.
InitLoad_started_at_once ==
    /\ market \in {m \in [Gems -> UNION {GemMarkets[g] : g \in Gems}] :
                      \A g \in Gems : m[g] \in GemMarkets[g]}
    /\ currency_prices \in CurrencyCases
    /\ profits_data = <<>>
    /\ all_ninja_profits = <<>>
    /\ corruption_cache = [g \in Gems |-> None]
    /\ cache_age = [g \in Gems |-> 0]
    /\ current_analysis_gem = ""
    /\ loading_progress = [current |-> 0, total |-> 0, complete |-> FALSE]
    /\ gunicorn \in BOOLEAN
    /\ loading_thread = Thread
    /\ loaders = [t \in 1..MaxLoaders |-> IF t # 1 THEN Idle ELSE Started]
    /\ pending = {}
    /\ poll = "idle"
    /\ response = NoResponse

InitLoad ==
    /\ market \in {m \in [Gems -> UNION {GemMarkets[g] : g \in Gems}] :
                      \A g \in Gems : m[g] \in GemMarkets[g]}
    /\ currency_prices \in CurrencyCases
    /\ profits_data = <<>>
    /\ all_ninja_profits = <<>>
    /\ corruption_cache = [g \in Gems |-> None]
    /\ cache_age = [g \in Gems |-> 0]
    /\ current_analysis_gem = ""
    /\ loading_progress = [current |-> 0, total |-> 0, complete |-> FALSE]
    /\ gunicorn \in BOOLEAN
    /\ loading_thread = IF gunicorn THEN None ELSE Thread
    /\ loaders = [t \in 1..MaxLoaders |-> IF gunicorn \/ t # 1 THEN Idle ELSE Started]
    /\ pending = {}
    /\ poll = "idle"
    /\ response = NoResponse

\* No price-source call is being followed.
NoCall == [op |-> "none", pc |-> "idle", attempt |-> 0, sleeps |-> <<>>,
           listings |-> <<>>, k |-> 0, prices |-> <<>>, rates |-> <<>>,
           result |-> None, outcome |-> "", raised |-> FALSE]

\* No action of the loader or of the callbacks modelled here reads the
\* divine rate or the display mode: their specifications start from the one
\* rate the calculator is constructed with when the rate request fails.
Init ==
    /\ InitLoad
    /\ call = NoCall
    /\ divine_rate = R(DefaultRate)
    /\ currency_mode = "chaos"
    /\ formatted = None

(***************************************************************************)
(* The environment: time passes.  (The listings and the snapshot are those *)
(* chosen initially for the whole run.)                                    *)
(***************************************************************************)
TickSeconds == 300
MaxAge == 300

Tick ==
    /\ \E g \in Gems : corruption_cache[g] # None /\ cache_age[g] < MaxAge
    /\ cache_age' = [g \in Gems |->
                        IF corruption_cache[g] = None THEN 0
                        ELSE Min(cache_age[g] + TickSeconds, MaxAge)]
    /\ UNCHANGED <<source_vars, poll, gunicorn, pending, market, currency_prices, profits_data, all_ninja_profits,
                   corruption_cache, current_analysis_gem, loading_progress,
                   loading_thread, loaders>>
    /\ response' = NoResponse

(***************************************************************************)
(* load_gem_prices, run by a loader thread.                                *)
(***************************************************************************)
\* Phase 1: fetch the snapshot, keep it for Load All, pick the candidates.
LoaderPhase1(t) ==
    /\ loaders[t].pc = "start"
    /\ LET ninja_gems == get_awakened_gem_prices
           ninja_profits == NinjaProfits(ninja_gems, Len(ninja_gems))
       IN  /\ all_ninja_profits' = ninja_profits
           /\ loaders' = [loaders EXCEPT ![t] =
                             [pc |-> "sleep", top_5 |-> Top5(ninja_profits), i |-> 0]]
    /\ UNCHANGED <<source_vars, poll, gunicorn, pending, market, currency_prices, profits_data, corruption_cache,
                   cache_age, current_analysis_gem, loading_progress,
                   loading_thread>>
    /\ response' = NoResponse

\* Phase 2 begins after the sleep: the total is set, the list is emptied.
LoaderPhase2(t) ==
    /\ loaders[t].pc = "sleep"
    /\ loading_progress' = [loading_progress EXCEPT !.total = Len(loaders[t].top_5)]
    /\ profits_data' = <<>>
    /\ loaders' = [loaders EXCEPT ![t].pc = "trade"]
    /\ UNCHANGED <<source_vars, poll, gunicorn, pending, market, currency_prices, all_ninja_profits, corruption_cache,
                   cache_age, current_analysis_gem, loading_thread>>
    /\ response' = NoResponse

\* One round of the loop over top_5.
LoaderGem(t) ==
    /\ loaders[t].pc = "trade"
    /\ loaders[t].i < Len(loaders[t].top_5)
    /\ LET i == loaders[t].i + 1
           gem_name == loaders[t].top_5[i]
           profit == calculate_basic_profit(gem_name)
       IN  /\ loading_progress' = [loading_progress EXCEPT !.current = i]
           /\ profits_data' = IF profit # None
                              THEN Append(profits_data, profit @@ [from_trade |-> TRUE])
                              ELSE profits_data
           /\ loaders' = [loaders EXCEPT ![t].i = i]
    /\ UNCHANGED <<source_vars, poll, gunicorn, pending, market, currency_prices, all_ninja_profits, corruption_cache,
                   cache_age, current_analysis_gem, loading_thread>>
    /\ response' = NoResponse

\* After the loop: sort by ROI% and report completion.
LoaderFinish(t) ==
    /\ loaders[t].pc = "trade"
    /\ loaders[t].i = Len(loaders[t].top_5)
    /\ profits_data' = IF profits_data # <<>> THEN SortByRoi(profits_data)
                       ELSE profits_data
    /\ loading_progress' = [loading_progress EXCEPT !.complete = TRUE]
    /\ loaders' = [loaders EXCEPT ![t] = Idle]
    /\ UNCHANGED <<source_vars, poll, gunicorn, pending, market, currency_prices, all_ninja_profits, corruption_cache,
                   cache_age, current_analysis_gem, loading_thread>>
    /\ response' = NoResponse

(***************************************************************************)
(* The Dash callbacks.                                                     *)
(***************************************************************************)
\* The startup trigger fires (n = 1): the first visit starts the loader.
start_loading_on_first_visit ==
    /\ loading_thread = None
    /\ \E t \in Threads :
          /\ loaders[t].pc = "idle"
          /\ loaders' = [loaders EXCEPT ![t] = Started]
    /\ loading_thread' = Thread
    /\ UNCHANGED <<source_vars, poll, gunicorn, pending, market, currency_prices, profits_data, all_ninja_profits,
                   corruption_cache, cache_age, current_analysis_gem,
                   loading_progress>>
    /\ response' = NoResponse

\* update_table_and_analysis triggered by the refresh button or by the
\* auto-refresh interval: everything is cleared and a new loader thread is
\* started (loading_thread here is a local of the callback).
RefreshTable ==
    /\ \E t \in Threads :
          /\ loaders[t].pc = "idle"
          /\ loaders' = [loaders EXCEPT ![t] = Started]
    /\ corruption_cache' = [g \in Gems |-> None]
    /\ cache_age' = [g \in Gems |-> 0]
    /\ profits_data' = <<>>
    /\ loading_progress' = [current |-> 0, total |-> 0, complete |-> FALSE]
    /\ pending' = {[r EXCEPT !.refreshed = TRUE] : r \in pending}
    /\ UNCHANGED <<source_vars, poll, gunicorn, market, currency_prices, all_ninja_profits,
                   current_analysis_gem, loading_thread>>
    /\ response' = NoResponse

\* The rows of the table, one per record of the list in its order (the
\* price cells are left out).
create_table_data ==
    [j \in 1..Len(profits_data) |->
        [gem_name |-> profits_data[j].name,
         roi |-> profits_data[j].profit_percent,
         Corrupt |-> IF profits_data[j].from_trade THEN "Gamba?"
                     ELSE "Trade Price"]]

\* update_table_and_analysis triggered by the progress interval or the
\* currency toggle: nothing until the load is complete and the list has
\* records, then the table.
update_table_and_analysis ==
    /\ response' = IF ~loading_progress.complete \/ profits_data = <<>>
                   THEN [NoResponse EXCEPT !.kind = "loading"]
                   ELSE [NoResponse EXCEPT !.kind = "table",
                                           !.rows = create_table_data]
    /\ UNCHANGED <<source_vars, poll, gunicorn, pending, market, currency_prices, profits_data,
                   all_ninja_profits, corruption_cache, cache_age,
                   current_analysis_gem, loading_progress, loading_thread,
                   loaders>>

\* What update_progress returns from the progress record it reads after
\* the test of the total.
ProgressShown ==
    [NoResponse EXCEPT
        !.kind = "progress",
        !.percent = RMul(RDiv(R(loading_progress.current),
                              R(loading_progress.total)), R(100)),
        !.is_open = ~loading_progress.complete,
        !.interval_disabled = loading_progress.complete]

\* update_progress, fired by the progress interval, run in one piece.
update_progress ==
    /\ poll = "idle"
    /\ response' = IF loading_progress.total = 0
                   THEN [NoResponse EXCEPT !.kind = "progress",
                                           !.percent = R(0),
                                           !.is_open = TRUE,
                                           !.interval_disabled = FALSE]
                   ELSE ProgressShown
    /\ UNCHANGED <<source_vars, poll, gunicorn, pending, market, currency_prices,
                   profits_data, all_ninja_profits, corruption_cache, cache_age,
                   current_analysis_gem, loading_progress, loading_thread,
                   loaders>>

\* The record load_all_gems builds from a snapshot entry.
LoadAllRecord(data) ==
    LET l1_cost == data.l1
        l5_price == data.l5
        leveling_cost == RMul(R(4), R(Get(currency_prices, "brambleback", 10)))
        quality_cost == RMul(R(20), R(Get(currency_prices, "gcp", 1)))
        total_cost == RAdd(RAdd(l1_cost, leveling_cost), quality_cost)
        profit == RSub(l5_price, total_cost)
    IN  [name |-> data.name,
         l1_cost |-> l1_cost,
         leveling_cost |-> leveling_cost,
         quality_cost |-> quality_cost,
         total_cost |-> total_cost,
         l5_price |-> l5_price,
         profit |-> profit,
         profit_percent |-> Percent(profit, total_cost),
         from_trade |-> FALSE]

\* The loop of the show branch over all_ninja_profits.items()
RECURSIVE AddNinjaGems(_, _, _)
AddNinjaGems(list, loaded_gems, k) ==
    IF k = 0 THEN list
    ELSE LET acc == AddNinjaGems(list, loaded_gems, k - 1)
             data == all_ninja_profits[k]
         IN  IF data.name \notin loaded_gems /\ data.l1 # None /\ data.l5 # None
             THEN Append(acc, LoadAllRecord(data))
             ELSE acc

\* The hide branch keeping every record.
HideNinjaGems_keeping_all(list) == SortByRoi(list)

\* The hide branch: only the trade-priced records are kept, sorted again.
HideNinjaGems(list) == SortByRoi(SelectSeq(list, LAMBDA g : g.from_trade))

\* The show branch: a record is added for each gem of the snapshot that is
\* not listed, and the list is sorted again.
ShowNinjaGems(list) ==
    LET loaded_gems == {list[j].name : j \in 1..Len(list)}
    IN  SortByRoi(AddNinjaGems(list, loaded_gems, Len(all_ninja_profits)))

\* has_ninja_gems
HasNinjaGems(list) == \E j \in 1..Len(list) : ~list[j].from_trade

\* load_all_gems with n_clicks > 0: nothing before the load is complete,
\* then hide the snapshot-priced records if there are any, else add them.
\* The answer is the new label of the button.
load_all_gems ==
    /\ loading_progress.complete
    /\ profits_data' = IF HasNinjaGems(profits_data)
                       THEN HideNinjaGems(profits_data)
                       ELSE ShowNinjaGems(profits_data)
    /\ response' = [NoResponse EXCEPT
                       !.kind = IF HasNinjaGems(profits_data)
                                THEN "Load All Gems" ELSE "Hide Extra Gems"]
    /\ UNCHANGED <<source_vars, poll, gunicorn, pending, market, currency_prices, all_ninja_profits, corruption_cache,
                   cache_age, current_analysis_gem, loading_progress,
                   loading_thread, loaders>>

\* for i, gem in enumerate(profits_data): if gem['name'] == gem_name: replace; break
ReplaceFirst(list, gem_name, record) ==
    LET hits == {j \in 1..Len(list) : list[j].name = gem_name}
        first == CHOOSE j \in hits : \A h \in hits : j <= h
    IN  IF hits = {} THEN list ELSE [list EXCEPT ![first] = record]

\* The corruption analysis with a cache entry expiring after 300 seconds.
CorruptionAnalysis_with_ttl(gem_name, gem_data) ==
    LET hit == corruption_cache[gem_name] # None /\ cache_age[gem_name] < 300
        corruption_data == IF hit THEN corruption_cache[gem_name]
                           ELSE calculate_corruption_ev(gem_name, gem_data)
    IN  IF corruption_data = None
        THEN /\ response' = [NoResponse EXCEPT !.kind = "no_corruption_prices",
                                                  !.gem = gem_name]
             /\ UNCHANGED <<corruption_cache, cache_age, current_analysis_gem>>
        ELSE /\ corruption_cache' = [corruption_cache EXCEPT ![gem_name] = corruption_data]
             /\ cache_age' = IF hit THEN cache_age
                             ELSE [cache_age EXCEPT ![gem_name] = 0]
             /\ current_analysis_gem' = gem_name
             /\ response' = [NoResponse EXCEPT
                                !.kind = "analysis", !.gem = gem_name,
                                !.ev = corruption_data,
                                !.comparison = RSub(corruption_data.ev_profit,
                                                    corruption_data.base_profit),
                                !.cached = hit,
                                !.age = IF hit THEN cache_age[gem_name] ELSE 0,
                                !.base = IF hit THEN None ELSE gem_data]

\* The "Gamba?" part of display_gem_details: the corruption analysis of a
\* trade-priced gem, from the cache or computed and cached.
CorruptionAnalysis(gem_name, gem_data) ==
    LET hit == corruption_cache[gem_name] # None
        corruption_data == IF hit THEN corruption_cache[gem_name]
                           ELSE calculate_corruption_ev(gem_name, gem_data)
    IN  IF corruption_data = None
        THEN /\ response' = [NoResponse EXCEPT !.kind = "no_corruption_prices",
                                                  !.gem = gem_name]
             /\ UNCHANGED <<corruption_cache, cache_age, current_analysis_gem>>
        ELSE /\ corruption_cache' = [corruption_cache EXCEPT ![gem_name] = corruption_data]
             /\ cache_age' = IF hit THEN cache_age
                             ELSE [cache_age EXCEPT ![gem_name] = 0]
             /\ current_analysis_gem' = gem_name
             /\ response' = [NoResponse EXCEPT
                                !.kind = "analysis", !.gem = gem_name,
                                !.ev = corruption_data,
                                !.comparison = RSub(corruption_data.ev_profit,
                                                    corruption_data.base_profit),
                                !.cached = hit,
                                !.age = IF hit THEN cache_age[gem_name] ELSE 0,
                                !.base = IF hit THEN None ELSE gem_data]

\* display_gem_details analysing whatever record it finds, trade-priced
\* or not.
display_gem_details_any_record(gem_name, column_id) ==
    LET gem_data == FindGem(profits_data, gem_name)
        plain(kind) == /\ response' = [NoResponse EXCEPT !.kind = kind]
                       /\ UNCHANGED <<profits_data, corruption_cache, cache_age,
                                      current_analysis_gem>>
    IN  /\ IF column_id = "Gem" THEN plain("trade_link")
           ELSE IF column_id # "Corrupt" THEN plain("empty")
           ELSE IF gem_data = None THEN plain("gem_not_found")
           ELSE /\ CorruptionAnalysis(gem_name, gem_data)
                /\ UNCHANGED profits_data
        /\ UNCHANGED <<source_vars, poll, gunicorn, pending, market, currency_prices, all_ninja_profits,
                       loading_progress, loading_thread, loaders>>

\* display_gem_details triggered by a click on a cell of the row of
\* gem_name (the row comes from the client's copy of the table).
display_gem_details(gem_name, column_id) ==
    LET gem_data == FindGem(profits_data, gem_name)
        trade_profit == calculate_basic_profit(gem_name)
        plain(kind) == /\ response' = [NoResponse EXCEPT !.kind = kind]
                       /\ UNCHANGED <<profits_data, corruption_cache, cache_age,
                                      current_analysis_gem>>
    IN  /\ IF column_id = "Gem" THEN plain("trade_link")
           ELSE IF column_id # "Corrupt" THEN plain("empty")
           ELSE IF gem_data = None THEN plain("gem_not_found")
           ELSE IF ~gem_data.from_trade
           THEN IF trade_profit # None
                THEN /\ profits_data' =
                           SortByRoi(ReplaceFirst(profits_data, gem_name,
                                        trade_profit @@ [from_trade |-> TRUE]))
                     /\ response' = [NoResponse EXCEPT !.kind = "upgraded",
                                                       !.gem = gem_name]
                     /\ UNCHANGED <<corruption_cache, cache_age, current_analysis_gem>>
                ELSE /\ response' = [NoResponse EXCEPT !.kind = "upgrade_failed",
                                                       !.gem = gem_name]
                     /\ UNCHANGED <<profits_data, corruption_cache, cache_age,
                                    current_analysis_gem>>
           ELSE /\ CorruptionAnalysis(gem_name, gem_data)
                /\ UNCHANGED profits_data
        /\ UNCHANGED <<source_vars, poll, gunicorn, pending, market, currency_prices, all_ninja_profits,
                       loading_progress, loading_thread, loaders>>

\* display_gem_details triggered by the currency toggle: the analysis of
\* the gem shown in the footer is produced again.
display_on_currency_toggle ==
    LET gem_name == current_analysis_gem
        gem_data == FindGem(profits_data, gem_name)
    IN  /\ current_analysis_gem # ""
        /\ gem_data # None
        /\ gem_data.from_trade
        /\ CorruptionAnalysis(gem_name, gem_data)
        /\ UNCHANGED <<source_vars, poll, gunicorn, pending, market, currency_prices, profits_data, all_ninja_profits,
                       loading_progress, loading_thread, loaders>>

\* Dash serves callbacks on several threads, and calculate_corruption_ev
\* takes five searches of the trade site: a click on "Gamba?" that misses
\* the cache may still be computing while other callbacks run.  The first
\* half of such a request: the record is found, the cache is missed.
MaxPending == 1

AnalysisBegin(gem_name) ==
    LET gem_data == FindGem(profits_data, gem_name)
    IN  /\ Cardinality(pending) < MaxPending
        /\ gem_data # None
        /\ gem_data.from_trade
        /\ corruption_cache[gem_name] = None
        /\ pending' = pending \cup {[gem |-> gem_name, gem_data |-> gem_data,
                                      refreshed |-> FALSE]}
        /\ response' = NoResponse
        /\ UNCHANGED <<source_vars, poll, gunicorn, market, currency_prices, profits_data,
                       all_ninja_profits, corruption_cache, cache_age,
                       current_analysis_gem, loading_progress, loading_thread,
                       loaders>>

\* The second half: the prices have come in, the result is cached and shown.
AnalysisEnd(request) ==
    LET gem_name == request.gem
        corruption_data == calculate_corruption_ev(gem_name, request.gem_data)
    IN  /\ request \in pending
        /\ pending' = pending \ {request}
        /\ IF corruption_data = None
           THEN /\ response' = [NoResponse EXCEPT
                                   !.kind = "no_corruption_prices",
                                   !.gem = gem_name, !.late = TRUE,
                                   !.refreshed = request.refreshed]
                /\ UNCHANGED <<corruption_cache, cache_age, current_analysis_gem>>
           ELSE /\ corruption_cache' = [corruption_cache EXCEPT
                                           ![gem_name] = corruption_data]
                /\ cache_age' = [cache_age EXCEPT ![gem_name] = 0]
                /\ current_analysis_gem' = gem_name
                /\ response' = [NoResponse EXCEPT
                                   !.kind = "analysis", !.gem = gem_name,
                                   !.ev = corruption_data,
                                   !.comparison = RSub(corruption_data.ev_profit,
                                                       corruption_data.base_profit),
                                   !.base = request.gem_data,
                                   !.late = TRUE,
                                   !.refreshed = request.refreshed,
                                   !.stored_over = corruption_cache[gem_name] # None]
        /\ UNCHANGED <<source_vars, poll, gunicorn, market, currency_prices, profits_data,
                       all_ninja_profits, loading_progress, loading_thread,
                       loaders>>

Columns == {"Gem", "ROI%", "Corrupt"}

Next ==
    \/ Tick
    \/ \E t \in Threads : LoaderPhase1(t)
    \/ \E t \in Threads : LoaderPhase2(t)
    \/ \E t \in Threads : LoaderGem(t)
    \/ \E t \in Threads : LoaderFinish(t)
    \/ start_loading_on_first_visit
    \/ RefreshTable
    \/ update_table_and_analysis
    \/ update_progress
    \/ load_all_gems
    \/ \E g \in Gems, c \in Columns : display_gem_details(g, c)
    \/ display_on_currency_toggle

\* The callbacks one at a time, beside the loader threads.
Spec == Init /\ [][Next]_vars

\* The same with corruption analyses that overlap other callbacks.
NextOverlap ==
    \/ Next
    \/ \E g \in Gems : AnalysisBegin(g)
    \/ \E request \in pending : AnalysisEnd(request)

SpecOverlap == Init /\ [][NextOverlap]_vars

(***************************************************************************)
(* The server runs the callbacks on several threads beside the loader      *)
(* threads: a refresh starts a new loader thread whether or not one is     *)
(* running, and update_progress reads the progress record while others     *)
(* write it.                                                               *)
(***************************************************************************)
MaxWorkers == 2

\* update_progress up to the test of the total, which is not 0.
update_progress_test ==
    /\ poll = "idle"
    /\ loading_progress.total # 0
    /\ poll' = "percent"
    /\ response' = NoResponse
    /\ UNCHANGED <<source_vars, gunicorn, pending, market, currency_prices,
                   profits_data, all_ninja_profits, corruption_cache, cache_age,
                   current_analysis_gem, loading_progress, loading_thread,
                   loaders>>

\* update_progress from the division on: current / total raises
\* ZeroDivisionError when the total is 0 by now.
update_progress_percent ==
    /\ poll = "percent"
    /\ poll' = "idle"
    /\ response' = IF loading_progress.total = 0
                   THEN [NoResponse EXCEPT !.kind = "ZeroDivisionError"]
                   ELSE ProgressShown
    /\ UNCHANGED <<source_vars, gunicorn, pending, market, currency_prices,
                   profits_data, all_ninja_profits, corruption_cache, cache_age,
                   current_analysis_gem, loading_progress, loading_thread,
                   loaders>>

\* A gem the snapshot has no line of.
Unlisted == GemMarket(50, 150, 60, 140, 400, 200, 100, -1, -1)

\* The market with the snapshot's lines, and the one without any.
Markets ==
    { (Fork :> Full) @@ (Chain :> NoCorrupted) @@ (Enlighten :> Pricey),
      [g \in Gems |-> Unlisted] }

InitThreads ==
    /\ market \in Markets
    /\ currency_prices = [gcp |-> 1, vaal |-> 1]
    /\ profits_data = <<>>
    /\ all_ninja_profits = <<>>
    /\ corruption_cache = [g \in Gems |-> None]
    /\ cache_age = [g \in Gems |-> 0]
    /\ current_analysis_gem = ""
    /\ loading_progress = [current |-> 0, total |-> 0, complete |-> FALSE]
    /\ gunicorn \in BOOLEAN
    /\ loading_thread = IF gunicorn THEN None ELSE Thread
    /\ loaders = [t \in 1..MaxWorkers |-> IF gunicorn \/ t # 1 THEN Idle ELSE Started]
    /\ pending = {}
    /\ poll = "idle"
    /\ response = NoResponse
    /\ call = NoCall
    /\ divine_rate = R(DefaultRate)
    /\ currency_mode = "chaos"
    /\ formatted = None

NextThreads ==
    \/ Next
    \/ update_progress_test
    \/ update_progress_percent

SpecThreads == InitThreads /\ [][NextThreads]_vars

(***************************************************************************)
(* The price sources, one call followed request by request, and the        *)
(* display of prices.                                                      *)
(***************************************************************************)
\* return result
Return(c, result, outcome) ==
    [c EXCEPT !.pc = "done", !.result = result, !.outcome = outcome]

\* The retry of get_trade_site_gem_price after a 429 or an exception: wait
\* and start the lookup again, or give up at the last attempt.
TradeRetry(c, cause) ==
    IF c.attempt < max_retries - 1
    THEN [c EXCEPT !.pc = "search", !.attempt = @ + 1,
                   !.sleeps = Append(@, [seconds |-> wait_time(c.attempt),
                                         after |-> cause]),
                   !.listings = <<>>, !.k = 0, !.prices = <<>>, !.rates = <<>>]
    ELSE Return(c, None, cause)

\* The exception leaving get_trade_site_gem_price.
TradeExcept_propagating(c) ==
    [c EXCEPT !.pc = "done", !.outcome = "raised", !.raised = TRUE]

\* except Exception of get_trade_site_gem_price
TradeExcept(c) == TradeRetry(c, "raised")

\* except Exception of get_trade_site_gem_price_corrupted
CorruptedExcept(c) == Return(c, None, "raised")

\* A caller calls get_trade_site_gem_price.
CallTrade ==
    /\ call.pc \in {"idle", "done"}
    /\ call' = [NoCall EXCEPT !.op = "trade", !.pc = "search"]
    /\ UNCHANGED <<load_vars, divine_rate, currency_mode, formatted>>

\* The search request of one attempt and what follows from its reply; a
\* 200 reply names the listings the site holds (site).
TradeSearch(reply) ==
    /\ call.op = "trade"
    /\ call.pc = "search"
    /\ call' =
          IF reply.status = "raised" THEN TradeExcept(call)
          ELSE IF reply.status = "429" THEN TradeRetry(call, "search_429")
          ELSE IF reply.status # "200" THEN Return(call, None, "status")
          ELSE LET result_ids == SubSeq(reply.body, 1,
                                        Min(TradeLimit, Len(reply.body)))
               IN  IF result_ids = <<>> THEN Return(call, None, "no_results")
                   ELSE [call EXCEPT !.pc = "fetch", !.listings = result_ids]
    /\ UNCHANGED <<load_vars, divine_rate, currency_mode, formatted>>

\* The fetch request of the listings found.
TradeFetch(reply) ==
    /\ call.op = "trade"
    /\ call.pc = "fetch"
    /\ call' =
          IF reply.status = "raised" THEN TradeExcept(call)
          ELSE IF reply.status = "429" THEN TradeRetry(call, "fetch_429")
          ELSE IF reply.status # "200" THEN Return(call, None, "status")
          ELSE [call EXCEPT !.pc = "collect"]
    /\ UNCHANGED <<load_vars, divine_rate, currency_mode, formatted>>

\* A caller calls get_trade_site_gem_price_corrupted.
CallCorrupted ==
    /\ call.pc \in {"idle", "done"}
    /\ call' = [NoCall EXCEPT !.op = "corrupted", !.pc = "search"]
    /\ UNCHANGED <<load_vars, divine_rate, currency_mode, formatted>>

CorruptedSearch(reply) ==
    /\ call.op = "corrupted"
    /\ call.pc = "search"
    /\ call' =
          IF reply.status = "raised" THEN CorruptedExcept(call)
          ELSE IF reply.status # "200" THEN Return(call, None, "status")
          ELSE LET result_ids == SubSeq(reply.body, 1,
                                        Min(CorruptedLimit, Len(reply.body)))
               IN  IF result_ids = <<>> THEN Return(call, None, "no_results")
                   ELSE [call EXCEPT !.pc = "fetch", !.listings = result_ids]
    /\ UNCHANGED <<load_vars, divine_rate, currency_mode, formatted>>

CorruptedFetch(reply) ==
    /\ call.op = "corrupted"
    /\ call.pc = "fetch"
    /\ call' =
          IF reply.status = "raised" THEN CorruptedExcept(call)
          ELSE IF reply.status # "200" THEN Return(call, None, "status")
          ELSE [call EXCEPT !.pc = "collect"]
    /\ UNCHANGED <<load_vars, divine_rate, currency_mode, formatted>>

\* One round of the loop over the fetched listings, the same in both
\* searches: a chaos price is collected as it is, a divine price times the
\* rate get_divine_chaos_rate returns then (rate_reply: the reply to its
\* request), anything else is passed over.
CollectPrice(rate_reply) ==
    /\ call.pc = "collect"
    /\ call.k < Len(call.listings)
    /\ LET item == call.listings[call.k + 1]
           divine_rate_now == get_divine_chaos_rate(rate_reply)
       IN  call' =
              IF item.currency = "chaos"
              THEN [call EXCEPT !.k = @ + 1,
                                !.prices = Append(@, R(item.amount))]
              ELSE IF item.currency = "divine"
              THEN [call EXCEPT !.k = @ + 1,
                                !.rates = Append(@, divine_rate_now),
                                !.prices = Append(@, RMul(R(item.amount),
                                                          divine_rate_now))]
              ELSE [call EXCEPT !.k = @ + 1]
    /\ UNCHANGED <<load_vars, divine_rate, currency_mode, formatted>>

\* After the loop: the average, or None without a price.
ReturnAverage ==
    /\ call.pc = "collect"
    /\ call.k = Len(call.listings)
    /\ call' = Return(call, AveragePrice(call.prices),
                      IF call.prices = <<>> THEN "no_prices" ELSE "priced")
    /\ UNCHANGED <<load_vars, divine_rate, currency_mode, formatted>>

\* How a single request ended.
ReplyOutcome(reply) ==
    IF reply.status = "raised" THEN "raised"
    ELSE IF reply.status # "200" THEN "status"
    ELSE "ok"

\* A call of get_awakened_gem_prices: the lines of the snapshot, an empty
\* mapping when the request raised or the body has no lines.
CallSnapshot(reply) ==
    /\ call.pc \in {"idle", "done"}
    /\ call' = [NoCall EXCEPT
                   !.op = "snapshot", !.pc = "done",
                   !.result = IF reply.status = "200" THEN reply.body ELSE <<>>,
                   !.outcome = ReplyOutcome(reply)]
    /\ UNCHANGED <<load_vars, divine_rate, currency_mode, formatted>>

\* A call of get_divine_chaos_rate by itself.
CallRate(reply) ==
    /\ call.pc \in {"idle", "done"}
    /\ call' = [NoCall EXCEPT !.op = "rate", !.pc = "done",
                              !.result = get_divine_chaos_rate(reply),
                              !.outcome = ReplyOutcome(reply)]
    /\ UNCHANGED <<load_vars, divine_rate, currency_mode, formatted>>

\* The integer nearest to a * scale, a tie going to the even one (the
\* rounding of a format specification such as .2f, taken on the exact value).
RoundTo(a, scale) ==
    LET n == a.n * scale
        q == n \div a.d
        r == n % a.d
    IN  IF 2 * r < a.d THEN q
        ELSE IF 2 * r > a.d THEN q + 1
        ELSE IF q % 2 = 0 THEN q ELSE q + 1

\* format_price: the text as its number in hundredths with the suffix d, or
\* in tenths with the suffix c.
format_price(chaos_value, mode) ==
    IF mode = "divine"
    THEN [digits |-> RoundTo(RDiv(chaos_value, divine_rate), 100),
          decimals |-> 2, suffix |-> "d"]
    ELSE [digits |-> RoundTo(chaos_value, 10), decimals |-> 1, suffix |-> "c"]

\* The amounts shown: below, at and above one divine at the rates of the
\* model, and a loss.
ShownAmounts == {R(50), [n |-> 299, d |-> 2], R(150), R(300), R(-40)}

\* A price cell or a figure of the analysis is formatted in the current
\* display mode.
ShowPrice(chaos_value) ==
    /\ formatted' = [chaos_value |-> chaos_value, mode |-> currency_mode,
                     text |-> format_price(chaos_value, currency_mode)]
    /\ UNCHANGED <<load_vars, call, divine_rate, currency_mode>>

toggle_currency_mode ==
    /\ currency_mode' = IF currency_mode = "chaos" THEN "divine" ELSE "chaos"
    /\ UNCHANGED <<load_vars, call, divine_rate, formatted>>

\* The replies to a search (naming the listings found) and to a fetch.
SearchReplies == {Raised, TooManyRequests, ServerError} \cup
                 {Ok(site) : site \in SiteListings}
FetchReplies == {Raised, TooManyRequests, ServerError, Ok(<<>>)}
SnapshotReplies == {Raised, ServerError, Ok(get_awakened_gem_prices)}

\* The calculator is constructed with the rate get_divine_chaos_rate
\* returns then; the market is one of those of Init.
InitSource ==
    /\ InitLoad
    /\ gunicorn
    /\ market = (Fork :> Full) @@ (Chain :> NoCorrupted) @@ (Enlighten :> Pricey)
    /\ currency_prices = [gcp |-> 1, vaal |-> 1]
    /\ call = NoCall
    /\ divine_rate \in {get_divine_chaos_rate(reply) : reply \in RateReplies}
    /\ currency_mode = "chaos"
    /\ formatted = None

NextSource ==
    \/ CallTrade
    \/ \E reply \in SearchReplies : TradeSearch(reply)
    \/ \E reply \in FetchReplies : TradeFetch(reply)
    \/ CallCorrupted
    \/ \E reply \in SearchReplies : CorruptedSearch(reply)
    \/ \E reply \in FetchReplies : CorruptedFetch(reply)
    \/ \E rate_reply \in RateReplies : CollectPrice(rate_reply)
    \/ ReturnAverage
    \/ \E reply \in SnapshotReplies : CallSnapshot(reply)
    \/ \E reply \in RateReplies : CallRate(reply)
    \/ \E chaos_value \in ShownAmounts : ShowPrice(chaos_value)
    \/ toggle_currency_mode

SpecSource == InitSource /\ [][NextSource]_vars

(***************************************************************************)
(* Properties.                                                             *)
(***************************************************************************)
\* The currency prices the calculator works with.
BramblebackPrice == R(Get(currency_prices, "brambleback", 10))
GcpPrice == R(Get(currency_prices, "gcp", 1))
VaalPrice == R(Get(currency_prices, "vaal", 1))

Records == {profits_data[j] : j \in 1..Len(profits_data)}

\* A rational rounded to one decimal, in tenths (half up; a >= 0).
Tenths(a) == (20 * a.n + a.d) \div (2 * a.d)

\* C1: every base-profit record of the results list, whichever of the three
\* places built it, has total_cost = l1_cost + leveling_cost + quality_cost,
\* with leveling_cost 4 times the brambleback price and quality_cost 20
\* times the gcp price.
C1_TotalCostIsSum ==
    \A r \in Records :
        /\ r.total_cost = RAdd(RAdd(r.l1_cost, r.leveling_cost), r.quality_cost)
        /\ r.leveling_cost = RMul(R(4), BramblebackPrice)
        /\ r.quality_cost = RMul(R(20), GcpPrice)

\* The list holds a record built by the loader, one built by Load All and
\* one just upgraded to trade prices.
C1_Witness ==
    /\ response.kind = "upgraded"
    /\ \E r \in Records : r.name = Fork /\ r.from_trade
    /\ \E r \in Records : ~r.from_trade
    /\ \E r \in Records : r.name = response.gem /\ r.from_trade

\* C2: in every base-profit record profit = l5_price - total_cost, and
\* profit_percent is profit / total_cost as a percentage when total_cost > 0
\* and 0 when total_cost is 0; a gem bought for 50, levelled for 40, given
\* quality for 20 and sold for 150 costs 110 and yields 40, that is 36.4%.
C2_ProfitAndRatio ==
    \A r \in Records :
        /\ r.profit = RSub(r.l5_price, r.total_cost)
        /\ RGt(r.total_cost, R(0)) =>
              RMul(r.profit_percent, r.total_cost) = RMul(r.profit, R(100))
        /\ r.total_cost = R(0) => r.profit_percent = R(0)
        /\ (/\ r.l1_cost = R(50) /\ r.leveling_cost = R(40)
            /\ r.quality_cost = R(20) /\ r.l5_price = R(150))
           => /\ r.total_cost = R(110)
              /\ r.profit = R(40)
              /\ Tenths(r.profit_percent) = 364

\* The list holds the record of the example.
C2_Witness ==
    \E r \in Records :
        /\ r.l1_cost = R(50) /\ r.leveling_cost = R(40)
        /\ r.quality_cost = R(20) /\ r.l5_price = R(150)

\* The list holds a record whose total cost is 0.
C2_ZeroCostReached == \E r \in Records : r.total_cost = R(0)

\* The live prices of a gem, and the price of a variant from live search
\* first and the snapshot second.
Live(g, v) == market[g].trade[v]
Snapshot(g, v) == market[g].ninja[v]
LiveOrSnapshot(g, v, nv) == IF Live(g, v) # None THEN Live(g, v) ELSE Snapshot(g, nv)

\* The corruption results in the cache.
Cached == {g \in Gems : corruption_cache[g] # None}

\* The five outcomes, by the names of the result's outcomes, with the
\* trade variant each is priced by and its canonical probability.
Outcomes == {"l5_no_change", "l6", "l4", "quality_up", "quality_down"}
VariantOf == [l5_no_change |-> L5c, l6 |-> L6c, l4 |-> L4c,
              quality_up |-> QUp, quality_down |-> QDown]
Probability == [l5_no_change |-> [n |-> 1, d |-> 3], l6 |-> [n |-> 1, d |-> 6],
                l4 |-> [n |-> 1, d |-> 6], quality_up |-> [n |-> 1, d |-> 6],
                quality_down |-> [n |-> 1, d |-> 6]]

\* The expected revenue the code computes from a result's outcome prices.
EvOf(o) == EvPrice(o.l5_no_change, o.l6, o.l4, o.quality_up, o.quality_down)

\* The expected revenue with the canonical probabilities.
CanonicalEv(o) ==
    RAdd(RAdd(RAdd(RAdd(RMul(Probability.l5_no_change, o.l5_no_change),
                        RMul(Probability.l6, o.l6)),
                   RMul(Probability.l4, o.l4)),
              RMul(Probability.quality_up, o.quality_up)),
         RMul(Probability.quality_down, o.quality_down))

\* C3: the expected revenue of a corruption result is the sum over the
\* five outcomes of probability times price, with no_change at 1/3 and the
\* four others at 1/6, each outcome priced by its corrupted variant.
C3_ExpectedRevenue ==
    \A g \in Cached :
        LET e == corruption_cache[g]
        IN  /\ \A o \in Outcomes : e.outcomes[o] = Live(g, VariantOf[o])
            /\ e.ev_price = CanonicalEv(e.outcomes)

\* C4: the weights applied to the five outcome prices add up to exactly 1:
\* a result whose five outcomes have the same price p has expected
\* revenue p.
C4_WeightsSumToOne ==
    \A g \in Cached :
        LET e == corruption_cache[g]
        IN  /\ EvPrice(R(1), R(1), R(1), R(1), R(1)) = R(1)
            /\ (\A o \in Outcomes : e.outcomes[o] = e.outcomes.l4)
                  => e.ev_price = e.outcomes.l4

\* C5: a trade-priced record exists only for a gem whose L1 Q0 and L5 Q20
\* live prices were both found, and carries them; when either is missing,
\* calculate_basic_profit returns None, never a record with a 0 in its place.
C5_AbsenceNotZero ==
    /\ \A g \in Gems :
          (Live(g, L1Q0) = None \/ Live(g, L5Q20) = None)
              => calculate_basic_profit(g) = None
    /\ \A r \in Records :
          r.from_trade => /\ Live(r.name, L1Q0) # None
                          /\ Live(r.name, L5Q20) # None
                          /\ r.l1_cost = Live(r.name, L1Q0)
                          /\ r.l5_price = Live(r.name, L5Q20)

\* A load has completed over a candidate with a missing live price, and the
\* list holds no record of it.
C5_Witness ==
    /\ loading_progress.complete
    /\ loading_progress.current = loading_progress.total
    /\ \E k \in 1..Len(all_ninja_profits) :
          LET data == all_ninja_profits[k]
          IN  /\ data.name \notin excluded_gems
              /\ data.l1 # None /\ data.l5 # None
              /\ Live(data.name, L1Q0) = None
              /\ \A r \in Records : r.name # data.name

Estimate == [l5_no_change |-> [n |-> 19, d |-> 20], l6 |-> [n |-> 3, d |-> 2],
             l4 |-> [n |-> 2, d |-> 5], quality_up |-> [n |-> 11, d |-> 10],
             quality_down |-> [n |-> 3, d |-> 5]]

IsAnalysisRequest == response.kind \in {"analysis", "no_corruption_prices"}

C7_PartlyMissingReached ==
    /\ response.kind = "no_corruption_prices"
    /\ \E o \in Outcomes : Live(response.gem, VariantOf[o]) # None

\* C8: in every corruption result ev_profit is ev_price - ev_total_cost;
\* when it is computed, ev_total_cost is the total_cost of the gem's base
\* record (the one the request found in the list) plus the vaal price and
\* base_profit is that record's profit; the difference displayed with an
\* analysis is ev_profit - base_profit.
C8_EvAccounting ==
    /\ \A g \in Cached :
          LET e == corruption_cache[g]
          IN  /\ e.vaal_cost = VaalPrice
              /\ e.ev_profit = RSub(e.ev_price, e.ev_total_cost)
    /\ response.kind = "analysis" =>
          LET e == response.ev
              base == response.base
          IN  /\ response.comparison = RSub(e.ev_profit, e.base_profit)
              /\ ~response.cached =>
                    /\ base # None
                    /\ ~response.late => base = FindGem(profits_data, response.gem)
                    /\ e.ev_total_cost = RAdd(base.total_cost, VaalPrice)
                    /\ e.base_profit = base.profit

\* A corruption result has just been computed and displayed, for a vaal
\* orb that costs something.
C8_Witness ==
    /\ response.kind = "analysis"
    /\ ~response.cached
    /\ RGt(VaalPrice, R(0))

\* The outcome prices o with those of outcomes a and b exchanged.
Swap(o, a, b) == [x \in Outcomes |-> IF x = a THEN o[b] ELSE IF x = b THEN o[a] ELSE o[x]]

\* C9: exchanging the prices of two outcomes a and b of a corruption result
\* changes its expected revenue by (p_a - p_b) * (price_a - price_b) in
\* magnitude, p being the canonical probabilities.
C9_SwapChange ==
    \A g \in Cached :
        LET e == corruption_cache[g]
        IN  \A a, b \in Outcomes :
                RAbs(RSub(EvOf(Swap(e.outcomes, a, b)), e.ev_price))
                    = RAbs(RMul(RSub(Probability[a], Probability[b]),
                                RSub(e.outcomes[a], e.outcomes[b])))

C11_ComputedOncePerKey ==
    (response.kind = "analysis" /\ ~response.refreshed) =>
        /\ response.ev = corruption_cache[response.gem]
        /\ ~response.stored_over

\* An analysis is being computed for a gem while the cache has come to hold
\* an entry for it.
C11_OverlapReached ==
    \E request \in pending :
        /\ ~request.refreshed
        /\ corruption_cache[request.gem] # None

\* The requests that read the results list: the table, and the scans of
\* display_gem_details on a click in the last column.
IsListRead ==
    response.kind \in {"table", "gem_not_found", "upgraded", "upgrade_failed",
                       "analysis", "no_corruption_prices"}

\* The records loader t has still to add, and the list its load ends with
\* if nothing else touches the list.
RECURSIVE RemainingRecords(_, _)
RemainingRecords(t, i) ==
    IF i >= Len(loaders[t].top_5) THEN <<>>
    ELSE LET profit == calculate_basic_profit(loaders[t].top_5[i + 1])
         IN  (IF profit = None THEN <<>> ELSE <<profit @@ [from_trade |-> TRUE]>>)
             \o RemainingRecords(t, i + 1)

FinalList(t) == SortByRoi(profits_data \o RemainingRecords(t, loaders[t].i))

\* C12: no reader sees the list in the middle of a bulk load: while a loader
\* is between emptying the list and sorting it, a reader finds the list
\* either still empty or already as the load will leave it.
C12_ReadersSeeWholeLists ==
    \A t \in Threads :
        (IsListRead /\ loaders[t].pc = "trade" /\ profits_data # <<>>)
            => profits_data = FinalList(t)

\* How far a call of get_trade_site_gem_price is from returning: the
\* attempts left, and within an attempt the requests and listings left.
TradeRank(c) ==
    IF c.pc = "done" THEN 0
    ELSE (3 - (c.attempt + 1)) * 9
         + (CASE c.pc = "search" -> 8
              [] c.pc = "fetch" -> 7
              [] c.pc = "collect" -> 6 - c.k)

\* C13: a call of get_trade_site_gem_price makes at most 3 attempts and
\* every step brings it nearer to its return; before its second attempt it
\* has waited 1 second and before its third 2 seconds, after a 429 to the
\* search or to the fetch alike, and each retry starts the lookup over; a
\* 429 at the third attempt ends the call with no price.
C13_BoundedRetries ==
    /\ [](call.op = "trade" =>
            /\ call.attempt + 1 <= 3
            /\ Len(call.sleeps) = call.attempt
            /\ \A j \in 1..Len(call.sleeps) :
                  call.sleeps[j].seconds = IF j = 1 THEN 1 ELSE 2
            /\ call.pc \in {"search", "fetch", "collect", "done"}
            /\ call.pc = "search" => call.listings = <<>> /\ call.prices = <<>>
            /\ call.pc = "collect" => call.k <= Len(call.listings)
            /\ TradeRank(call) >= 0
            /\ (call.pc = "done" /\ call.outcome \in {"search_429", "fetch_429"})
                  => /\ call.attempt + 1 = 3
                     /\ call.result = None)
    /\ [][(call.op = "trade" /\ call.pc # "done" /\ call' # call)
             => /\ call'.op = "trade"
                /\ TradeRank(call') < TradeRank(call)]_vars

\* A call has given up at its third attempt, rate-limited at the search
\* the first time and at the fetch the second.
C13_Witness ==
    /\ call.op = "trade"
    /\ call.pc = "done"
    /\ call.outcome \in {"search_429", "fetch_429"}
    /\ call.sleeps = <<[seconds |-> 1, after |-> "search_429"],
                       [seconds |-> 2, after |-> "fetch_429"]>>

\* The listings of a call that carry a price in chaos or in divine.
Priced(listings) ==
    SelectSeq(listings, LAMBDA item : item.currency \in {"chaos", "divine"})

\* The sum of the prices at the places S of a sequence.
RECURSIVE SumAt(_, _)
SumAt(prices, S) ==
    IF S = {} THEN R(0)
    ELSE LET j == CHOOSE j \in S : TRUE
         IN  RAdd(prices[j], SumAt(prices, S \ {j}))

\* C14: a live search that has fetched its listings collects the price of
\* every listing in chaos as it is and of every listing in divine times a
\* divine rate, and returns the mean of the min(5, n) lowest of the n
\* prices collected, no price when n = 0.
C14_MeanOfLowest ==
    (call.pc = "done" /\ call.outcome \in {"priced", "no_prices"}) =>
        LET prices == call.prices
            n == Len(prices)
            m == IF n < 5 THEN n ELSE 5
            priced == Priced(call.listings)
            divines(j) == Cardinality({h \in 1..j : priced[h].currency = "divine"})
        IN  /\ n = Len(priced)
            /\ \A j \in 1..n :
                  prices[j] = IF priced[j].currency = "chaos"
                              THEN R(priced[j].amount)
                              ELSE RMul(R(priced[j].amount),
                                        call.rates[divines(j)])
            /\ n = 0 => call.result = None
            /\ n >= 1 =>
                  \E S \in SUBSET (1..n) :
                      /\ Cardinality(S) = m
                      /\ \A j \in S, h \in (1..n) \ S : ~RLt(prices[h], prices[j])
                      /\ RMul(call.result, R(m)) = SumAt(prices, S)

\* A search has returned the mean of the five lowest of seven prices that
\* came in another order.
C14_Witness ==
    /\ call.pc = "done"
    /\ call.outcome = "priced"
    /\ Len(call.prices) = 7
    /\ call.prices # SortAsc(call.prices)
    /\ call.result = R(38)

\* A search has returned for fewer than five prices, one of them in divine.
C14_FewReached ==
    /\ call.pc = "done"
    /\ call.outcome = "priced"
    /\ Len(call.prices) \in 2..4
    /\ call.rates # <<>>

C15_CorruptedReached ==
    call.op = "corrupted" /\ call.pc = "done" /\ call.outcome = "status"
C15_SnapshotReached ==
    call.op = "snapshot" /\ call.outcome = "raised"
C15_RateReached ==
    call.op = "rate" /\ call.outcome = "status"

\* C16: in one call of a live search the divine rate is fetched at most
\* once, and it is the rate the display converts with: every divine price
\* of the call is normalised with calculator.divine_rate.
C16_OneRatePerBatch ==
    /\ Len(call.rates) <= 1
    /\ \A j \in 1..Len(call.rates) : call.rates[j] = divine_rate

\* C17: in divine mode format_price shows an amount of at least one divine
\* in divine (suffix d) and a smaller amount in chaos (suffix c); in chaos
\* mode it shows chaos.
C17_DivineThreshold ==
    formatted # None =>
        IF formatted.mode = "divine"
        THEN IF RLt(formatted.chaos_value, divine_rate)
             THEN formatted.text.suffix = "c"
             ELSE formatted.text.suffix = "d"
        ELSE formatted.text.suffix = "c"

\* The names of the records of a list, in its order.
Names(list) == [j \in 1..Len(list) |-> list[j].name]

\* The candidates of loader t that calculate_basic_profit prices.
PricedCandidates(t) ==
    {loaders[t].top_5[j] : j \in {h \in 1..Len(loaders[t].top_5) :
                                     calculate_basic_profit(loaders[t].top_5[h]) # None}}

\* C18: a bulk load passes over the candidates calculate_basic_profit has
\* no record for and completes: at the step that completes a load, the
\* list holds one trade-priced record of each candidate that was priced
\* and nothing else.
C18_ExactlyThePriced ==
    [][\A t \in Threads :
          (loaders[t].pc = "trade" /\ loaders'[t].pc = "idle") =>
              /\ loading_progress'.complete
              /\ Len(profits_data') = Cardinality(PricedCandidates(t))
              /\ \A g \in PricedCandidates(t) :
                    \E j \in 1..Len(profits_data') :
                        /\ profits_data'[j].name = g
                        /\ profits_data'[j].from_trade]_vars

\* No loader thread is running.
NoLoad == \A t \in Threads : loaders[t].pc = "idle"

\* C19: whenever the load is complete and no load is running, the list is
\* in the order of ROI%, highest first: after a load, after Load All has
\* added or removed the snapshot-priced records and after a record has
\* been upgraded to trade prices.
C19_OrderedByRoi ==
    (loading_progress.complete /\ NoLoad) =>
        \A j, h \in 1..Len(profits_data) :
            j < h => ~RLt(profits_data[j].profit_percent,
                          profits_data[h].profit_percent)

\* A record has just been upgraded in a list of three records of
\* different ROI%, trade-priced and snapshot-priced.
C19_Witness ==
    /\ loading_progress.complete
    /\ NoLoad
    /\ response.kind = "upgraded"
    /\ Len(profits_data) >= 3
    /\ \E j \in 1..Len(profits_data) : ~profits_data[j].from_trade
    /\ \A j, h \in 1..Len(profits_data) :
          j < h => RGt(profits_data[j].profit_percent,
                       profits_data[h].profit_percent)

\* A loader thread is started in this step.
LoadStarts ==
    \E t \in Threads : loaders[t].pc = "idle" /\ loaders'[t].pc = "start"

C20_StandaloneReached ==
    /\ ~gunicorn
    /\ loading_progress.complete
    /\ profits_data # <<>>

\* The loader threads running load_gem_prices.
Active == {t \in Threads : loaders[t].pc # "idle"}

\* C21: at most one thread runs load_gem_prices at any time.
C21_OneLoader == Cardinality(Active) <= 1

\* C22: update_progress never faults: whatever the loader threads and a
\* refresh write between its reads, it does not divide by a total of 0.
C22_ProgressNeverFaults == response.kind # "ZeroDivisionError"

\* The record of gem g in the results list is priced from the trade site.
BasePriced(g) ==
    LET gem_data == FindGem(profits_data, g)
    IN  gem_data # None /\ gem_data.from_trade

C23_AfterUpgradeReached ==
    /\ response.kind \in {"analysis", "no_corruption_prices"}
    /\ response.gem \in excluded_gems

\* C24: once a load has set complete, a progress poll closes the loading
\* modal and disables the polling, and the table is no longer answered
\* with "Loading...", whatever the load found.
C24_CompletionShown ==
    loading_progress.complete =>
        /\ response.kind = "progress" =>
              ~response.is_open /\ response.interval_disabled
        /\ response.kind # "loading"

\* C25: no entry is stored in the corruption cache that was computed from
\* a base record of the list as it was before a refresh emptied the cache:
\* an analysis that was being computed when the refresh came does not
\* store its result.
C25_NoEntryFromBeforeRefresh ==
    ~(/\ response.kind = "analysis"
      /\ ~response.cached
      /\ response.refreshed
      /\ corruption_cache[response.gem] = response.ev)

\* C26: the results list never holds two records of the same gem name.
C26_OneRecordPerGem ==
    \A j, h \in 1..Len(profits_data) :
        profits_data[j].name = profits_data[h].name => j = h

\* C27: the progress record always has 0 <= current <= total.
C27_CurrentWithinTotal ==
    /\ 0 <= loading_progress.current
    /\ loading_progress.current <= loading_progress.total

\* C28: the callbacks a click on the currency toggle fires leave the
\* results list, the corruption cache and the progress record as they
\* are and look no price up: an analysis shown again comes from the cache.
C28_ToggleOnlyDisplays ==
    [][(toggle_currency_mode \/ update_table_and_analysis
            \/ display_on_currency_toggle) =>
          /\ UNCHANGED <<profits_data, corruption_cache, loading_progress>>
          /\ response'.kind \in {"analysis", "no_corruption_prices"}
                => response'.cached]_vars

\* The gem names of the records of the list.
Listed(list) == {list[j].name : j \in 1..Len(list)}

\* How many times record r is in the list.
Count(list, r) == Cardinality({j \in 1..Len(list) : list[j] = r})

\* The list is in ROI order, highest first.
Ordered(list) ==
    \A j, h \in 1..Len(list) :
        j < h => ~RLt(list[j].profit_percent, list[h].profit_percent)

\* The gems of the snapshot that have both prices.
Estimable ==
    {all_ninja_profits[k].name : k \in
        {k \in 1..Len(all_ninja_profits) :
            all_ninja_profits[k].l1 # None /\ all_ninja_profits[k].l5 # None}}

\* What a click on Load All makes of the list.
Clicked(list) ==
    IF HasNinjaGems(list) THEN HideNinjaGems(list) ELSE ShowNinjaGems(list)

\* C29: with the load complete and only trade-priced records listed, a
\* click on Load All adds exactly one snapshot-priced record for each gem
\* not listed that has both snapshot prices, a second click removes
\* exactly the snapshot-priced records, and the list is then, in ROI
\* order, the list of the records it held before the first click; every
\* hide keeps each trade-priced record and no other.
C29_ShowThenHide ==
    /\ [](loading_progress.complete /\ ~HasNinjaGems(profits_data) =>
            LET shown == Clicked(profits_data)
                back == Clicked(shown)
                added == {j \in 1..Len(shown) : ~shown[j].from_trade}
            IN  /\ {shown[j].name : j \in added} = Estimable \ Listed(profits_data)
                /\ Cardinality(added) = Cardinality(Estimable \ Listed(profits_data))
                /\ Ordered(shown)
                /\ \A j \in 1..Len(profits_data) :
                       Count(shown, profits_data[j]) = Count(profits_data, profits_data[j])
                /\ back = SortByRoi(profits_data)
                /\ Ordered(profits_data) => back = profits_data)
    /\ [][(load_all_gems /\ HasNinjaGems(profits_data)) =>
            /\ Ordered(profits_data')
            /\ \A j \in 1..Len(profits_data) :
                   Count(profits_data', profits_data[j]) =
                      IF profits_data[j].from_trade
                      THEN Count(profits_data, profits_data[j]) ELSE 0
            /\ \A j \in 1..Len(profits_data') :
                   Count(profits_data, profits_data'[j]) > 0]_vars

\* The second click has just hidden the snapshot-priced records again.
C29_Witness ==
    /\ response.kind = "Load All Gems"
    /\ loading_progress.complete
    /\ NoLoad
    /\ Len(profits_data) >= 2
    /\ Len(Clicked(profits_data)) > Len(profits_data)

\* The snapshot's estimate of the ROI% of each gem that has both snapshot
\* prices and is not excluded.
Candidates ==
    LET estimated == EstimatedProfits(all_ninja_profits, Len(all_ninja_profits))
    IN  {estimated[k] : k \in 1..Len(estimated)}

\* The gems fewer than TopCount candidates have a higher estimate than.
Best ==
    {c.name : c \in
        {c \in Candidates :
            Cardinality({d \in Candidates :
                            RGt(d.profit_percent, c.profit_percent)}) < TopCount}}

\* C30: at the step that completes a load and leaves no loader running,
\* the list holds at most 5 records, each priced from the trade site and
\* of one of the 5 candidates of highest estimated ROI%, none of them an
\* excluded gem.
C30_OnlyTheBestFive ==
    [][\A t \in Threads :
          (loaders[t].pc = "trade" /\ loaders'[t].pc = "idle" /\ NoLoad') =>
              /\ Len(profits_data') <= TopCount
              /\ \A j \in 1..Len(profits_data') :
                    /\ profits_data'[j].from_trade
                    /\ profits_data'[j].name \in Best
                    /\ profits_data'[j].name \notin excluded_gems]_vars
=============================================================================
